---- MODULE Spec2Model ----
(***************************************************************************)
(* bevy_web_keepalive: the background worker (src/background_worker.rs),   *)
(* the visibilitychange listener (src/background_listener.rs) and the      *)
(* background timer (src/background_timer.rs).                             *)
(*                                                                         *)
(* Two execution contexts are modelled: the host context (the Bevy World,  *)
(* the BackgroundWorker resource, the onmessage closure that runs the Main *)
(* schedule) and the web worker whose script is the JavaScript text the    *)
(* Startup system formats (a setTimeout chain or a setInterval).           *)
(***************************************************************************)
EXTENDS Integers, Sequences, FiniteSets, TLC

(***************************************************************************)
(* Bounds of the model.                                                    *)
(***************************************************************************)
\* timer expirations explored in the worker
MaxExpirations == 2
\* messages posted to the worker
MaxCtrl == 2
\* messages posted to the worker and not yet handled by it
MaxInFlight == 1
\* visibilitychange events the listener handles
MaxEvents == 2
\* runs of the Update schedule
MaxUpdates == 3

(***************************************************************************)
(* JavaScript / Rust values.  A number is [t, nan, val, s] with t = "num", *)
(* a string has t = "str" and its characters in s.                         *)
(***************************************************************************)
Num(n) == [t |-> "num", nan |-> FALSE, val |-> n, s |-> <<>>]
NaN == [t |-> "num", nan |-> TRUE, val |-> 0, s |-> <<>>]
Str(chars) == [t |-> "str", nan |-> FALSE, val |-> 0, s |-> chars]
\* the MessageEvent the worker's onmessage handler is called with
MessageEvent(d) == [t |-> "event", data |-> d]

IsNaN(v) == v.nan
IsPositive(v) == v.t = "num" /\ ~v.nan /\ v.val > 0

Digits == <<"0", "1", "2", "3", "4", "5", "6", "7", "8", "9">>
IsDigit(c) == \E i \in 1..10 : Digits[i] = c
DigitVal(c) == (CHOOSE i \in 1..10 : Digits[i] = c) - 1

RECURSIVE NatToChars(_)
NatToChars(n) ==
    IF n < 10 THEN <<Digits[n + 1]>>
    ELSE NatToChars(n \div 10) \o <<Digits[(n % 10) + 1]>>

\* what an integer-valued f64 / JS number prints as
NumToChars(v) ==
    IF v.nan THEN <<"N", "a", "N">>
    ELSE IF v.val < 0 THEN <<"-">> \o NatToChars(-v.val)
    ELSE NatToChars(v.val)

\* String(v) of JavaScript: an object prints as "[object <class>]"
JsToString(v) ==
    CASE v.t = "event" ->
            <<"[", "o", "b", "j", "e", "c", "t", " ", "M", "e", "s", "s",
              "a", "g", "e", "E", "v", "e", "n", "t", "]">>
      [] v.t = "str" -> v.s
      [] OTHER -> NumToChars(v)

RECURSIVE LeadingDigits(_)
LeadingDigits(chars) ==
    IF chars = <<>> \/ ~IsDigit(Head(chars)) THEN <<>>
    ELSE <<Head(chars)>> \o LeadingDigits(Tail(chars))

RECURSIVE DigitsValue(_, _)
DigitsValue(chars, acc) ==
    IF chars = <<>> THEN acc
    ELSE DigitsValue(Tail(chars), 10 * acc + DigitVal(Head(chars)))

\* parseInt(string): optional sign, then the leading decimal digits; NaN
\* when there is none
ParseIntChars(chars) ==
    LET neg  == chars # <<>> /\ Head(chars) = "-"
        body == IF chars # <<>> /\ Head(chars) \in {"-", "+"}
                THEN Tail(chars) ELSE chars
        ds   == LeadingDigits(body)
    IN  IF ds = <<>> THEN NaN
        ELSE Num((IF neg THEN -1 ELSE 1) * DigitsValue(ds, 0))

\* variant: the handler parses the message's data, parseInt(v.data)
ParseIntData(v) == ParseIntChars(JsToString(v.data))
\* `parseInt(v)` where v is the handler's parameter, the MessageEvent itself
ParseInt(v) == ParseIntChars(JsToString(v))

\* format!("{}", scheduler_delay) placed in the script as a numeric literal
FormatDelay(d) == NumToChars(d)
ScriptLiteral(chars) ==
    IF chars = <<"N", "a", "N">> THEN NaN ELSE ParseIntChars(chars)

(***************************************************************************)
(* Inputs.                                                                 *)
(***************************************************************************)
\* initial_scheduler_delay values the plugin is built with
InitialDelays == {Num(16), Num(100)}
\* values a host system writes into BackgroundWorker.scheduler_delay
DelayWrites == {Num(200), Num(0), NaN}
\* data of messages posted to the worker
ControlData == {Num(200), Num(0), Num(-5), Str(<<"a", "b">>)}

VARIABLES
    plugin,             \* BackgroundWorkerPlugin the app was built with
    phase,              \* "built" (resource inserted) or "active" (Startup ran)
    background_worker,  \* the BackgroundWorker resource
    world_alive,        \* the World behind world_ptr still exists
    document_hidden,    \* document.hidden
    worker,             \* the web worker: delay, timers, interval, next_id, posted
    expired,            \* number of timer expirations in the worker
    worker_inbox,       \* messages posted to the worker and not yet handled
    ctrl_count,         \* messages posted to the worker so far
    last_valid,         \* <<d>>: the last positive delay the worker's handler
                        \* was given, <<>> when none yet
    host_inbox,         \* tick messages posted and not yet handled
    handled,            \* per tick the closure handled: its id and how
    main_log,           \* runs of the Main schedule, in order
    document_available, \* window() and window.document() exist
    listener,           \* VisibilityChangeListenerPlugin and how far it got
    window_visibility,  \* the WindowVisibility resource
    events,             \* per visibilitychange event handled: what the
                        \* listener did, in order
    main_in_progress,   \* runs of the Main schedule begun and not finished
    lock,               \* the RwLock around world_ptr
    background_timer,   \* the BackgroundTimer resource (a Stopwatch)
    update_log          \* per run of system_background_timer: what it saw

\* state of the listener, of the host's call stack and of the timer
ext_vars == <<document_available, listener, window_visibility, events,
              main_in_progress, lock, background_timer, update_log>>

vars == <<plugin, phase, background_worker, world_alive, document_hidden,
          worker, expired, worker_inbox, ctrl_count, last_valid, host_inbox,
          handled, main_log, ext_vars>>

host_state == <<background_worker, main_log>>

(***************************************************************************)
(* The worker scripts.                                                     *)
(***************************************************************************)
Timer(id, delay, handler, repeat) ==
    [id |-> id, delay |-> delay, handler |-> handler, repeat |-> repeat]

NoWorker == [delay |-> Num(0), timers |-> {}, interval |-> 0,
             next_id |-> 1, posted |-> 0]

\* setTimeout(update, delay): arms a one-shot timer, returns its id
SetTimeout(w, delay) ==
    [w EXCEPT !.timers = @ \cup {Timer(w.next_id, delay, "update", FALSE)},
              !.next_id = @ + 1]

\* self.postMessage(null)
PostMessage(w) == [w EXCEPT !.posted = @ + 1]

\* setInterval(self.postMessage(null), delay): the argument is evaluated
\* first and posts a tick; its value, undefined, becomes the handler
SetInterval(w, delay) ==
    LET p == PostMessage(w)
    IN  [p EXCEPT !.timers = @ \cup {Timer(p.next_id, delay, "undefined", TRUE)},
                  !.interval = p.next_id,
                  !.next_id = @ + 1]

ClearInterval(w) ==
    [w EXCEPT !.timers = {t \in @ : t.id # w.interval}]

\* the timeout script, top level: let delay = {}; ... setTimeout(update, delay)
TimeoutScript(d) ==
    LET delay == ScriptLiteral(FormatDelay(d))
    IN  SetTimeout([NoWorker EXCEPT !.delay = delay], delay)

\* the interval script, top level: let interval = setInterval(..., {})
IntervalScript(d) ==
    LET delay == ScriptLiteral(FormatDelay(d))
    IN  SetInterval([NoWorker EXCEPT !.delay = delay], delay)

\* variant: update posts the tick and does not arm the next timer
UpdatePostOnly(w) == PostMessage(w)
\* update = () => setTimeout(update, delay) && self.postMessage(null)
Update(w) ==
    LET id == w.next_id
        armed == SetTimeout(w, w.delay)
    IN  IF id # 0 THEN PostMessage(armed) ELSE armed

\* a pending timer t fires
Fire(w, t) ==
    LET rest == IF t.repeat THEN w
                ELSE [w EXCEPT !.timers = @ \ {t}]
    IN  IF t.handler = "update" THEN Update(rest) ELSE rest

\* variant: the handler also restarts the chain with a new setTimeout
TimeoutOnMessageRearm(w, v) ==
    LET _delay == ParseInt(v)
        set == IF ~IsNaN(_delay) THEN [w EXCEPT !.delay = _delay] ELSE w
    IN  SetTimeout(set, set.delay)
\* self.onmessage of the timeout script
TimeoutOnMessage(w, v) ==
    LET _delay == ParseInt(v)
    IN  IF ~IsNaN(_delay) THEN [w EXCEPT !.delay = _delay] ELSE w

\* self.onmessage of the interval script
IntervalOnMessage(w, v) ==
    LET delay == ParseInt(v)
    IN  IF IsNaN(delay) THEN w
        ELSE SetInterval(ClearInterval(w), delay)

OnMessage(use_set_timeout, w, v) ==
    IF use_set_timeout THEN TimeoutOnMessage(w, v) ELSE IntervalOnMessage(w, v)

\* ids of the ticks posted between worker states w and w2
NewTicks(w, w2) == [i \in 1..(w2.posted - w.posted) |-> w.posted + i]

(***************************************************************************)
(* The host closure.                                                       *)
(***************************************************************************)
\* variant: the hidden test negated
ShouldRunInverted(check, hidden) == IF check THEN ~hidden ELSE TRUE
\* variant: document.hidden() consulted whatever check_is_in_background is
ShouldRunAlwaysChecks(check, hidden) == hidden
\* if check_is_in_background { if document.hidden() { run } } else { run }
ShouldRun(check, hidden) == IF check THEN hidden ELSE TRUE

\* variant: the closure captures the flag the plugin was built with
GatePolicyCaptured(plugin_check, resource_check) == plugin_check
\* let worker = world.resource::<BackgroundWorker>(), read on every tick
GatePolicy(plugin_check, resource_check) == resource_check

\* variant: the ticks queued behind the one handled are coalesced into it
DequeueAll(q) == <<>>
\* one message event is delivered per tick posted; the rest stay queued
Dequeue(q) == Tail(q)

MainRun(tick) == [by |-> "worker", tick |-> tick]

\* variant: a missing window or document counts as "not hidden"
DocumentHiddenOrDefault(avail, hidden) ==
    IF avail /\ hidden THEN "hidden" ELSE "visible"
\* window().expect(..).document().expect(..).hidden()
DocumentHidden(avail, hidden) ==
    IF ~avail THEN "panic" ELSE IF hidden THEN "hidden" ELSE "visible"

\* the closure's body: what a tick leads to
TickOutcome(check, avail, hidden) ==
    LET d == DocumentHidden(avail, hidden)
    IN  IF check /\ d = "panic" THEN "panic"
        ELSE IF ShouldRun(check, d = "hidden") THEN "run"
        ELSE "skip"

\* the closures are event-loop tasks of the page: one is called only when
\* no other host code is running
CanDispatchAlways(running) == TRUE
CanDispatch(running) == running = 0

(***************************************************************************)
(* The visibilitychange listener.                                          *)
(***************************************************************************)
Op(op, v) == [op |-> op, v |-> v]
ListenerRun == [by |-> "listener", tick |-> 0]

\* variant: the notification is triggered before the resource is written
ListenerHandlerTriggerFirst(visibility, is_hidden, run_on_hide) ==
    [visibility |-> ~is_hidden,
     ops |-> <<Op("trigger", visibility), Op("set", ~is_hidden)>>
             \o (IF run_on_hide /\ is_hidden
                 THEN <<Op("main", ~is_hidden)>> ELSE <<>>)]
\* variant: the active listener runs Main on every change
ListenerHandlerRunsAlways(visibility, is_hidden, run_on_hide) ==
    [visibility |-> ~is_hidden,
     ops |-> <<Op("set", ~is_hidden), Op("trigger", ~is_hidden)>>
             \o (IF run_on_hide THEN <<Op("main", ~is_hidden)>> ELSE <<>>)]
\* the listener closure, active (run_on_hide) or passive:
\*   world.resource_mut::<WindowVisibility>().0 = !is_hidden;
\*   world.trigger(*world.resource::<WindowVisibility>());
\*   if is_hidden { world.run_schedule(Main) }      (active only)
ListenerHandler(visibility, is_hidden, run_on_hide) ==
    LET written == ~is_hidden
        \* the value trigger() reads back from the resource
        read == written
    IN  [visibility |-> written,
         ops |-> <<Op("set", written), Op("trigger", read)>>
                 \o (IF run_on_hide /\ is_hidden
                     THEN <<Op("main", read)>> ELSE <<>>)]

MainOps(ops) == {k \in DOMAIN ops : ops[k].op = "main"}

\* world_ptr.write().unwrap(): fails when the lock is already held
LockWrite(l) ==
    IF l.held THEN [l EXCEPT !.failed = TRUE] ELSE [l EXCEPT !.held = TRUE]
\* the guard is a temporary of the `let world = ...` statement
LockRelease(l) == [l EXCEPT !.held = FALSE]

(***************************************************************************)
(* Initial state: Plugin::build has inserted the resource.                 *)
(***************************************************************************)
InitWorker ==
    /\ plugin \in [initial_scheduler_delay : InitialDelays,
                   check_is_in_background : BOOLEAN,
                   use_set_timeout : BOOLEAN]
    /\ phase = "built"
    /\ background_worker =
           [scheduler_delay |-> plugin.initial_scheduler_delay,
            check_is_in_background |-> plugin.check_is_in_background]
    /\ world_alive = TRUE
    /\ document_hidden \in BOOLEAN
    /\ worker = NoWorker
    /\ expired = 0
    /\ worker_inbox = <<>>
    /\ ctrl_count = 0
    /\ last_valid = <<>>
    /\ host_inbox = <<>>
    /\ handled = <<>>
    /\ main_log = <<>>
    /\ main_in_progress = 0
    /\ lock = [held |-> FALSE, failed |-> FALSE]

\* BackgroundTimer::default(): a Stopwatch at zero, not paused
InitTimer ==
    /\ background_timer = [elapsed |-> 0, paused |-> FALSE]
    /\ update_log = <<>>

\* the worker plugin alone, in a page that has a document
Init ==
    /\ InitWorker
    /\ InitTimer
    /\ document_available = TRUE
    /\ listener = [run_main_schedule_on_hide |-> FALSE, phase |-> "absent"]
    /\ window_visibility = TRUE
    /\ events = <<>>

(***************************************************************************)
(* Actions.                                                                *)
(***************************************************************************)
\* the Startup system: creates the worker from the formatted script and
\* installs the closure
Startup ==
    /\ phase = "built"
    /\ phase' = "active"
    /\ worker' = IF plugin.use_set_timeout
                 THEN TimeoutScript(background_worker.scheduler_delay)
                 ELSE IntervalScript(background_worker.scheduler_delay)
    /\ host_inbox' = host_inbox \o NewTicks(worker, worker')
    /\ UNCHANGED <<plugin, background_worker, world_alive, document_hidden,
                   expired, worker_inbox, ctrl_count, last_valid, handled,
                   main_log, ext_vars>>

\* a pending timer of the worker expires
TimerExpire ==
    /\ phase = "active"
    /\ expired < MaxExpirations
    /\ \E t \in worker.timers :
          /\ worker' = Fire(worker, t)
          /\ host_inbox' = host_inbox \o NewTicks(worker, worker')
    /\ expired' = expired + 1
    /\ UNCHANGED <<plugin, phase, background_worker, world_alive,
                   document_hidden, worker_inbox, ctrl_count, last_valid, handled,
                   main_log, ext_vars>>

\* a message is posted to the worker.  Nothing in the crate posts one (the
\* Worker handle is a local of the Startup system); this is the page
\* environment exercising the script's onmessage handler
PostToWorker ==
    /\ phase = "active"
    /\ ctrl_count < MaxCtrl
    /\ Len(worker_inbox) < MaxInFlight
    /\ \E d \in ControlData : worker_inbox' = Append(worker_inbox, d)
    /\ ctrl_count' = ctrl_count + 1
    /\ UNCHANGED <<plugin, phase, background_worker, world_alive,
                   document_hidden, worker, expired, last_valid, host_inbox,
                   handled, main_log, ext_vars>>

\* the worker's onmessage handler is given the oldest message
WorkerOnMessage ==
    /\ phase = "active"
    /\ worker_inbox # <<>>
    /\ worker_inbox' = Tail(worker_inbox)
    /\ LET d == Head(worker_inbox)
       IN  /\ worker' = OnMessage(plugin.use_set_timeout, worker,
                                  MessageEvent(d))
           /\ last_valid' = IF IsPositive(d) THEN <<d>> ELSE last_valid
    /\ host_inbox' = host_inbox \o NewTicks(worker, worker')
    /\ UNCHANGED <<plugin, phase, background_worker, world_alive,
                   document_hidden, expired, ctrl_count, handled,
                   main_log, ext_vars>>

\* the closure installed with set_onmessage handles the oldest tick
HandleTick ==
    /\ phase = "active"
    /\ host_inbox # <<>>
    /\ host_inbox' = Dequeue(host_inbox)
    /\ LET tick == Head(host_inbox)
           check == GatePolicy(plugin.check_is_in_background,
                               background_worker.check_is_in_background)
           outcome == TickOutcome(check, document_available, document_hidden)
       IN  IF world_alive
           THEN /\ main_log' = IF outcome = "run"
                                THEN Append(main_log, MainRun(tick))
                                ELSE main_log
                /\ handled' = Append(handled,
                       [tick |-> tick,
                        how |-> IF outcome = "panic" THEN "panic"
                                ELSE IF check THEN "gated" ELSE "always"])
           \* world_ptr dangles: dereferencing it is undefined behaviour; the
           \* closure may run the schedule on the freed World or trap
           ELSE \E ran \in BOOLEAN :
                    /\ main_log' = IF ran THEN Append(main_log, MainRun(tick))
                                   ELSE main_log
                    /\ handled' = Append(handled,
                          [tick |-> tick, how |-> "dangling"])
    /\ lock' = LockRelease(LockWrite(lock))
    /\ UNCHANGED <<plugin, phase, background_worker, world_alive,
                   document_hidden, worker, expired, worker_inbox, ctrl_count,
                   last_valid, document_available, listener,
                   window_visibility, events, main_in_progress,
                   background_timer, update_log>>

\* a host system writes BackgroundWorker.scheduler_delay (a pub field)
SetDelay ==
    /\ world_alive
    /\ \E d \in DelayWrites :
          background_worker' = [background_worker EXCEPT !.scheduler_delay = d]
    /\ UNCHANGED <<plugin, phase, world_alive, document_hidden, worker,
                   expired, worker_inbox, ctrl_count, last_valid, host_inbox, handled,
                   main_log, ext_vars>>

\* a host system writes BackgroundWorker.check_is_in_background (a pub field)
SetCheck ==
    /\ world_alive
    /\ \E b \in BOOLEAN :
          background_worker' =
              [background_worker EXCEPT !.check_is_in_background = b]
    /\ UNCHANGED <<plugin, phase, world_alive, document_hidden, worker,
                   expired, worker_inbox, ctrl_count, last_valid, host_inbox, handled,
                   main_log, ext_vars>>

\* the page is hidden or shown
VisibilityChange ==
    /\ document_hidden' = ~document_hidden
    /\ UNCHANGED <<plugin, phase, background_worker, world_alive, worker,
                   expired, worker_inbox, ctrl_count, last_valid, host_inbox, handled,
                   main_log, ext_vars>>

\* the App, and with it the World, is dropped; the Worker handle was a local
\* of the Startup system and the closure was forgotten, so nothing
\* terminates the worker or removes the handler
Teardown ==
    /\ phase = "active"
    /\ world_alive
    /\ world_alive' = FALSE
    /\ UNCHANGED <<plugin, phase, background_worker, document_hidden, worker,
                   expired, worker_inbox, ctrl_count, last_valid, host_inbox, handled,
                   main_log, ext_vars>>

(***************************************************************************)
(* The host with both plugins: the listener, and the closures as tasks     *)
(* that begin a run of Main which ends later.                              *)
(***************************************************************************)
\* VisibilityChangeListenerPlugin::build and BackgroundWorkerPlugin::build
\* have run, with or without a window and document
InitHost ==
    /\ InitWorker
    /\ InitTimer
    /\ document_available \in BOOLEAN
    /\ document_available \/ ~document_hidden
    /\ listener \in [run_main_schedule_on_hide : BOOLEAN, phase : {"built"}]
    /\ window_visibility = TRUE
    /\ events = <<>>

\* system_init_active_background_listener / ..._passive_...: registers the
\* closure, or panics on expect() when there is no window or document
ListenerStartup ==
    /\ listener.phase = "built"
    /\ listener' = [listener EXCEPT !.phase =
                       IF document_available THEN "listening" ELSE "panicked"]
    /\ UNCHANGED <<plugin, phase, background_worker, world_alive,
                   document_hidden, worker, expired, worker_inbox, ctrl_count,
                   last_valid, host_inbox, handled, main_log,
                   document_available, window_visibility, events,
                   main_in_progress, lock, background_timer, update_log>>

\* the page is hidden or shown and, in the same task, visibilitychange is
\* fired at the document: the listener closure runs if it is registered
VisibilityEvent ==
    /\ document_available
    /\ CanDispatch(main_in_progress)
    /\ document_hidden' = ~document_hidden
    /\ IF listener.phase = "listening"
       THEN /\ Len(events) < MaxEvents
            /\ LET is_hidden == ~document_hidden
                   r == ListenerHandler(window_visibility, is_hidden,
                                        listener.run_main_schedule_on_hide)
                   runs == Cardinality(MainOps(r.ops))
               IN  /\ window_visibility' = r.visibility
                   /\ events' = Append(events,
                                       [hidden |-> is_hidden, ops |-> r.ops])
                   /\ main_log' = main_log \o [k \in 1..runs |-> ListenerRun]
                   /\ main_in_progress' = main_in_progress + runs
       ELSE UNCHANGED <<window_visibility, events, main_log,
                        main_in_progress>>
    /\ UNCHANGED <<plugin, phase, background_worker, world_alive, worker,
                   expired, worker_inbox, ctrl_count, last_valid, host_inbox,
                   handled, document_available, listener, lock,
                   background_timer, update_log>>

\* the worker closure is called with the oldest tick; a run of Main it
\* starts is in progress until MainEnd
TickDispatch ==
    /\ phase = "active"
    /\ world_alive
    /\ host_inbox # <<>>
    /\ CanDispatch(main_in_progress)
    /\ host_inbox' = Dequeue(host_inbox)
    /\ lock' = LockRelease(LockWrite(lock))
    /\ LET tick == Head(host_inbox)
           check == GatePolicy(plugin.check_is_in_background,
                               background_worker.check_is_in_background)
           outcome == TickOutcome(check, document_available, document_hidden)
       IN  /\ handled' = Append(handled,
                  [tick |-> tick,
                   how |-> IF outcome = "panic" THEN "panic"
                           ELSE IF check THEN "gated" ELSE "always"])
           /\ IF outcome = "run"
              THEN /\ main_log' = Append(main_log, MainRun(tick))
                   /\ main_in_progress' = main_in_progress + 1
              ELSE UNCHANGED <<main_log, main_in_progress>>
    /\ UNCHANGED <<plugin, phase, background_worker, world_alive,
                   document_hidden, worker, expired, worker_inbox, ctrl_count,
                   last_valid, document_available, listener,
                   window_visibility, events, background_timer, update_log>>

\* world.run_schedule(Main) returns
MainEnd ==
    /\ main_in_progress > 0
    /\ main_in_progress' = main_in_progress - 1
    /\ UNCHANGED <<plugin, phase, background_worker, world_alive,
                   document_hidden, worker, expired, worker_inbox, ctrl_count,
                   last_valid, host_inbox, handled, main_log,
                   document_available, listener, window_visibility, events,
                   lock, background_timer, update_log>>

NextHost ==
    \/ Startup
    \/ ListenerStartup
    \/ TimerExpire
    \/ TickDispatch
    \/ MainEnd
    \/ VisibilityEvent
    \/ SetCheck

HostSpec == InitHost /\ [][NextHost]_vars

(***************************************************************************)
(* The background timer.                                                   *)
(***************************************************************************)
\* time.delta() of a run of Update
Deltas == {1, 2}

\* variant: a missing window or document counts as hidden
TimerHiddenUnwrapOr(available, hidden) == ~available \/ hidden
\* window().and_then(|w| w.document()).is_some_and(|d| d.hidden())
TimerHidden(available, hidden) == available /\ hidden

\* Stopwatch::tick and Stopwatch::reset
StopwatchTick(sw, delta) ==
    IF sw.paused THEN sw ELSE [sw EXCEPT !.elapsed = @ + delta]
StopwatchReset(sw) == [sw EXCEPT !.elapsed = 0]

\* BackgroundTimerPlugin::build has run, with or without a document
InitTimerSpec ==
    /\ InitWorker
    /\ InitTimer
    /\ document_available \in BOOLEAN
    /\ document_available \/ ~document_hidden
    /\ listener = [run_main_schedule_on_hide |-> FALSE, phase |-> "absent"]
    /\ window_visibility = TRUE
    /\ events = <<>>

\* system_background_timer, in one run of Update
UpdateRun ==
    /\ Len(update_log) < MaxUpdates
    /\ \E delta \in Deltas :
          /\ background_timer' =
                IF TimerHidden(document_available, document_hidden)
                THEN StopwatchTick(background_timer, delta)
                ELSE StopwatchReset(background_timer)
          /\ update_log' = Append(update_log,
                                  [available |-> document_available,
                                   hidden |-> document_hidden,
                                   delta |-> delta])
    /\ UNCHANGED <<plugin, phase, background_worker, world_alive,
                   document_hidden, worker, expired, worker_inbox, ctrl_count,
                   last_valid, host_inbox, handled, main_log,
                   document_available, listener, window_visibility, events,
                   main_in_progress, lock>>

NextTimer ==
    \/ UpdateRun
    \/ VisibilityEvent

TimerSpec == InitTimerSpec /\ [][NextTimer]_vars

Next ==
    \/ Startup
    \/ TimerExpire
    \/ PostToWorker
    \/ WorkerOnMessage
    \/ HandleTick
    \/ SetDelay
    \/ SetCheck
    \/ VisibilityChange
    \/ Teardown

Spec == Init /\ [][Next]_vars

\* The tick path alone: the worker's timers, the host's inbox and closure,
\* the gate's inputs and teardown.  The browser's event loop delivers every
\* queued message event, so a tick in the host's inbox is eventually given
\* to the closure.
NextTicks ==
    \/ Startup
    \/ TimerExpire
    \/ HandleTick
    \/ SetCheck
    \/ VisibilityChange
    \/ Teardown

TickSpec == Init /\ [][NextTicks]_vars /\ WF_vars(HandleTick)

(***************************************************************************)
(* Properties.                                                             *)
(***************************************************************************)
\* a step in which the closure handles a tick
TickHandled == Len(handled') = Len(handled) + 1
\* a step in which the worker's onmessage handler runs
CtrlHandled == worker_inbox # <<>> /\ worker_inbox' = Tail(worker_inbox)
\* the ticks in main_log
TicksRun == {main_log[i].tick : i \in DOMAIN main_log}

\* C1: when every tick handled so far was handled with
\* check_is_in_background = false and a live World, the N ticks handled are
\* ticks 1..N in emission order and Main has run exactly once for each, in
\* that order, for either initial delay.
C1_AlwaysRunRunsEveryTick ==
    (\A i \in DOMAIN handled : handled[i].how = "always") =>
        /\ \A i \in DOMAIN handled : handled[i].tick = i
        /\ Len(main_log) = Len(handled)
        /\ \A i \in DOMAIN main_log : main_log[i] = MainRun(i)

C1_Witness ==
    /\ Len(handled) >= 2
    /\ \A i \in DOMAIN handled : handled[i].how = "always"
    /\ Len(main_log) = Len(handled)
    /\ ~document_hidden

\* C2: a tick handled with check_is_in_background = true and a live World
\* runs Main exactly once for that tick when the document is hidden, and
\* leaves the host state (resource and Main runs) untouched when it is
\* visible, whatever happened before.
C2_GatedTick ==
    [][(TickHandled /\ world_alive
            /\ background_worker.check_is_in_background) =>
          IF document_hidden
          THEN /\ main_log' = Append(main_log, MainRun(Head(host_inbox)))
               /\ background_worker' = background_worker
          ELSE host_state' = host_state]_vars

C2_Witness ==
    \E i, j \in DOMAIN handled :
        /\ handled[i].how = "gated" /\ handled[i].tick \notin TicksRun
        /\ handled[j].how = "gated" /\ handled[j].tick \in TicksRun
        /\ i < j

\* C3: every timer expiry in the worker posts one tick to the host, under
\* either interval policy.
C3_EveryExpiryPostsTick ==
    [][expired' = expired + 1 =>
          /\ worker'.posted = worker.posted + 1
          /\ host_inbox' = Append(host_inbox, worker'.posted)]_vars

\* C4: a write of a new positive delay into the resource sends the worker
\* a control message carrying that delay.
C4_DelayWriteSendsControl ==
    [][(background_worker'.scheduler_delay # background_worker.scheduler_delay
            /\ IsPositive(background_worker'.scheduler_delay)) =>
          worker_inbox' =
              Append(worker_inbox, background_worker'.scheduler_delay)]_vars

\* C5: in the chained-timeout policy, once the worker's handler has been
\* given a positive delay, every timer armed afterwards uses the last such
\* delay.
C5_NewTimersUseNewDelay ==
    [][(plugin.use_set_timeout /\ last_valid # <<>>) =>
          \A t \in worker'.timers \ worker.timers :
              t.delay = last_valid[1]]_vars

\* C6: handling a control message whose delay is not a positive number
\* changes nothing in the worker (delay, pending timers, timer ids) and
\* posts no tick, under both policies.
C6_InvalidControlIgnored ==
    [][(CtrlHandled /\ ~IsPositive(Head(worker_inbox))) =>
          worker' = worker /\ host_inbox' = host_inbox]_vars

C6_Witness ==
    /\ ctrl_count >= 1
    /\ worker_inbox = <<>>
    /\ last_valid = <<>>
    /\ worker.timers # {}
    /\ expired >= 1

\* C7: the number of ticks the worker has posted equals the number of its
\* timer expirations.
C7_TicksEqualExpirations == worker.posted = expired

\* C8: once the World is gone (the app was torn down), no tick runs the
\* Main schedule any more.
C8_NoMainRunAfterTeardown ==
    [][~world_alive => main_log' = main_log]_vars

\* C9: the delay held in the resource is a positive number in every
\* reachable state.
C9_DelayAlwaysPositive == IsPositive(background_worker.scheduler_delay)

\* C10: in every reachable worker state, handing the handler the same
\* message a second time leaves the worker (delay, pending timers, ticks
\* posted) exactly as the first time left it.
C10_ReconfigurationIdempotent ==
    phase = "active" =>
        \A d \in ControlData :
            LET once == OnMessage(plugin.use_set_timeout, worker,
                                  MessageEvent(d))
            IN  OnMessage(plugin.use_set_timeout, once, MessageEvent(d)) = once

C10_Witness ==
    /\ ctrl_count >= 2
    /\ Len(worker_inbox) = 1
    /\ last_valid = <<Head(worker_inbox)>>
    /\ expired >= 1

\* C11: for every visibilitychange event handled, by the active or the
\* passive listener, the first thing done is the write of !document.hidden
\* into WindowVisibility, the second is the trigger, carrying that value,
\* there is no other trigger for the event, and the resource holds the
\* value of the last event.
C11_SetThenTriggerOnce ==
    /\ \A i \in DOMAIN events :
          LET e == events[i]
          IN  /\ Len(e.ops) >= 2
              /\ e.ops[1] = Op("set", ~e.hidden)
              /\ e.ops[2] = Op("trigger", ~e.hidden)
              /\ Cardinality({k \in DOMAIN e.ops :
                                 e.ops[k].op = "trigger"}) = 1
    /\ events # <<>> => window_visibility = ~events[Len(events)].hidden

C11_Witness ==
    /\ Len(events) >= 2
    /\ events[1].hidden
    /\ ~events[2].hidden
    /\ window_visibility

\* C12: the active listener runs Main exactly once for each change to
\* hidden, as the last thing after the write and the trigger, and not at
\* all for a change to visible; the passive listener never runs Main.
C12_MainOnHideOnly ==
    /\ \A i \in DOMAIN events :
          LET e == events[i]
          IN  IF listener.run_main_schedule_on_hide /\ e.hidden
              THEN Len(e.ops) = 3 /\ MainOps(e.ops) = {3}
              ELSE MainOps(e.ops) = {}
    /\ Cardinality({k \in DOMAIN main_log : main_log[k] = ListenerRun})
          = IF listener.run_main_schedule_on_hide
            THEN Cardinality({i \in DOMAIN events : events[i].hidden})
            ELSE 0

C12_Witness ==
    /\ listener.run_main_schedule_on_hide
    /\ Len(events) >= 2
    /\ \E i \in DOMAIN events : events[i].hidden
    /\ \E i \in DOMAIN events : ~events[i].hidden
    /\ \E k \in DOMAIN main_log : main_log[k] = ListenerRun

\* C13: whenever the listener plugin is in the app and the page has a
\* document, WindowVisibility equals the page's visibility.
C13_VisibilityMatchesPage ==
    (document_available /\ listener.phase \in {"built", "listening"}) =>
        window_visibility = ~document_hidden

\* C14: without a window or document the listener never gets registered
\* (its Startup system panics), no tick is handled as a gated tick: one
\* handled with check_is_in_background = true panics and runs nothing, and
\* one handled with check_is_in_background = false runs Main.
C14_NoSilentDefault ==
    ~document_available =>
        /\ listener.phase \in {"built", "panicked"}
        /\ events = <<>>
        /\ \A i \in DOMAIN handled :
              /\ handled[i].how \in {"panic", "always"}
              /\ handled[i].how = "panic" => handled[i].tick \notin TicksRun
              /\ handled[i].how = "always" => handled[i].tick \in TicksRun

C14_Witness ==
    /\ ~document_available
    /\ listener.phase = "panicked"
    /\ \E i \in DOMAIN handled : handled[i].how = "panic"
    /\ \E i \in DOMAIN handled : handled[i].how = "always"

\* the deltas of the Update runs at the end of the log that saw a hidden
\* document, back to the last run that saw none or a visible one
RECURSIVE TrailingHiddenSum(_)
TrailingHiddenSum(log) ==
    IF log = <<>> THEN 0
    ELSE LET e == log[Len(log)]
         IN  IF e.available /\ e.hidden
             THEN e.delta + TrailingHiddenSum(SubSeq(log, 1, Len(log) - 1))
             ELSE 0

\* C15: after every run of Update the stopwatch's elapsed time is zero if
\* that run saw the document visible or saw no document, and else is the sum
\* of the deltas of the consecutive runs that saw it hidden.
C15_ElapsedIsBackgroundPeriod ==
    background_timer.elapsed = TrailingHiddenSum(update_log)

C15_Witness ==
    /\ Len(update_log) = 3
    /\ ~update_log[1].hidden
    /\ update_log[2].hidden /\ update_log[2].delta = 1
    /\ update_log[3].hidden /\ update_log[3].delta = 2
    /\ background_timer.elapsed = 3

\* C16: the worker has posted no tick before its first timer expiry, and
\* never more ticks than timers have expired.
C16_NoTickBeforeExpiry == worker.posted <= expired

\* ids of the ticks the worker can post within the bounds
TickIds == 1..(MaxExpirations + MaxCtrl + 1)
\* the ticks handled so far, in the order the closure handled them
HandledTicks == [i \in DOMAIN handled |-> handled[i].tick]

\* C17: the ticks handled followed by the ticks still queued are exactly
\* the ticks posted, in emission order (none dropped, merged or reordered),
\* and every queued tick is eventually handled.
C17_EveryTickHandled ==
    /\ [](HandledTicks \o host_inbox = [i \in 1..worker.posted |-> i])
    /\ \A k \in TickIds :
          (\E i \in DOMAIN host_inbox : host_inbox[i] = k)
              ~> (\E i \in DOMAIN handled : handled[i].tick = k)

C17_Witness ==
    /\ Len(host_inbox) >= 2
    /\ Len(handled) = 0

\* C18 (as claimed): every tick is gated by the check_is_in_background the
\* plugin was built with, whatever was written to the resource since.
C18_GatedByPluginPolicy ==
    [][(TickHandled /\ world_alive) =>
          ((main_log' # main_log) <=>
              (IF plugin.check_is_in_background THEN document_hidden
               ELSE TRUE))]_vars

\* C18 (amended): every tick is gated by the check_is_in_background held in
\* the BackgroundWorker resource when the tick is handled; it starts as the
\* plugin's value and a host write changes the policy of later ticks.
C18_GatedByResourcePolicy ==
    /\ background_worker.check_is_in_background
          = plugin.check_is_in_background
    /\ [][(TickHandled /\ world_alive) =>
            /\ (main_log' # main_log) <=>
                  (IF background_worker.check_is_in_background
                   THEN document_hidden ELSE TRUE)
            /\ main_log' # main_log =>
                  main_log' = Append(main_log, MainRun(Head(host_inbox)))]_vars

C18_Witness ==
    /\ plugin.check_is_in_background
    /\ ~background_worker.check_is_in_background
    /\ \E i \in DOMAIN handled :
          handled[i].how = "always" /\ handled[i].tick \in TicksRun

\* C19: at most one run of the Main schedule is in progress, whichever of
\* the worker closure and the listener started it, and the closure's
\* write lock on world_ptr is never found held and never left held.
C19_NoOverlap ==
    /\ main_in_progress <= 1
    /\ ~lock.failed
    /\ ~lock.held

C19_Witness ==
    /\ main_in_progress = 1
    /\ host_inbox # <<>>
    /\ handled # <<>>
    /\ \E k \in DOMAIN main_log : main_log[k] = ListenerRun

\* C20: in the chained-timeout worker exactly one timer is pending in
\* every state after start-up.
C20_OnePendingTimer ==
    (phase = "active" /\ plugin.use_set_timeout) =>
        Cardinality(worker.timers) = 1

C20_Witness ==
    /\ plugin.use_set_timeout
    /\ expired >= 2
    /\ ctrl_count >= 1 /\ worker_inbox = <<>>
    /\ Cardinality(worker.timers) = 1

====
